---- MODULE Spec2Model ----
(***************************************************************************)
(* Model of pkg/controller/nodedaemon/reconcile.go: DaemonReconciler.      *)
(* Reconcile and DaemonReconciler.cleanupOldDaemonsets, against an object  *)
(* store holding DaemonSets, Pods, the provisioner ConfigMap and the       *)
(* LocalVolumeSet / LocalVolume objects.  Every store call is one step of  *)
(* a pass; the store's answer to it is an input of the step.               *)
(***************************************************************************)
EXTENDS Integers, Sequences, FiniteSets, TLC

\* ------------------------------------------------------------ constants
oldProvisionerName == "localvolumeset-local-provisioner"
oldLVDiskMakerPrefix == "local-volume-diskmaker-"
oldLVProvisionerPrefix == "local-volume-provisioner-"
appLabelKey == "app"
DiskMakerName == "diskmaker-manager"
dataHashAnnotationKey == "local.storage.openshift.io/configMapDataHash"

\* wait.Backoff{Cap: 2m, Duration: 1s, Factor: 1.7, Jitter: 1, Steps: 20}, in ms
BackoffCap == 120000
BackoffDuration == 1000
BackoffFactorNum == 17
BackoffFactorDen == 10
BackoffSteps == 20

\* ------------------------------------------------------------ bounds
\* legacy (prefix-labelled) DaemonSets the namespace may start with
MaxLegacy == 2
\* reconciliation passes started in one behaviour
MaxPasses == 2

Namespaces == {"ns1", "ns2"}
Workers == {"w1", "w2"}
Suffixes == <<"a", "b", "c", "d">>

\* ------------------------------------------------------------ helpers
\* strings.HasPrefix
HasPrefix(s, prefix) ==
    /\ Len(s) >= Len(prefix)
    /\ SubSeq(s, 1, Len(prefix)) = prefix

Range(seq) == {seq[i] : i \in 1..Len(seq)}

NoLabels == [k \in {} |-> ""]
AppLabel(v) == [k \in {appLabelKey} |-> v]

\* a DaemonSet object: identity, labels, and the fields the mutate function sets
DaemonSet(ns, name, labels) ==
    [namespace |-> ns, name |-> name, labels |-> labels,
     hash |-> "", nodeSelector |-> {}, ownerRefs |-> {}]

LegacyName(i) ==
    (IF i % 2 = 1 THEN oldLVDiskMakerPrefix ELSE oldLVProvisionerPrefix) \o Suffixes[i]

\* the i-th legacy local-volume DaemonSet of ns1
LegacyDS(i) == DaemonSet("ns1", LegacyName(i), AppLabel(LegacyName(i)))
\* the legacy localvolumeset provisioner DaemonSet of a namespace
OldProvisionerDS(ns) == DaemonSet(ns, oldProvisionerName, AppLabel(oldProvisionerName))
\* a DaemonSet of another owner, without an app label
CustomDS == DaemonSet("ns1", "custom-ds", NoLabels)

Pod(ns, app) == [namespace |-> ns, app |-> app]
\* a pod of the DaemonSet of another owner
CustomPod == Pod("ns1", "custom-app")

\* a label value of the deprecated generation
IsLegacyLabel(v) ==
    \/ HasPrefix(v, oldLVDiskMakerPrefix)
    \/ HasPrefix(v, oldLVProvisionerPrefix)
    \/ v = oldProvisionerName

\* ------------------------------------------------------------ state
VARIABLES
    deletedStaticProvisioner,  \* DaemonReconciler.deletedStaticProvisioner
    daemonSets,                \* the store's DaemonSets
    pods,                      \* the store's Pods
    configMaps,                \* the store's provisioner ConfigMaps
    pass,                      \* per worker, the Reconcile call it is running
    passes,                    \* Reconcile calls started so far
    cleaned                    \* history: the namespaces over which a call of
                               \* cleanupOldDaemonsets has run and returned nil

vars == <<deletedStaticProvisioner, daemonSets, pods, configMaps, pass, passes, cleaned>>

storeVars == <<daemonSets, pods, configMaps>>

\* LocalVolumeSet / LocalVolume objects
LVObject(name, sc, sel) == [name |-> name, storageClass |-> sc, nodeSelector |-> sel]

NoDesired == [lvSets |-> {}, lvs |-> {}]

DesiredStates ==
    { NoDesired,
      [lvSets |-> {LVObject("lvset-a", "sc-a", "sel1")}, lvs |-> {}],
      [lvSets |-> {LVObject("lvset-a", "sc-a", "sel2")}, lvs |-> {}],
      [lvSets |-> {LVObject("lvset-a", "sc-a", "sel1")},
       lvs |-> {LVObject("lv-a", "sc-b", "sel1")}] }

NoConfigMap == [namespace |-> "", name |-> "", data |-> [k \in {} |-> ""], ownerRefs |-> {}]

\* the summary of a pass that did not run both upserts
NoPass == [namespace |-> "", des |-> NoDesired]

\* a worker that runs no Reconcile call, and the locals of a call at its start
\* (storeError: the store call of the pass that was answered with an error
\* other than the not-found or gone of a delete or a get; dsList: the list in
\* the order of the client's answer for as long as the loop of lines 109-123
\* reads it, empty before and after; listed: the DaemonSets of that list)
IdlePass ==
    [pc |-> "idle", namespace |-> "", skipped |-> FALSE, cleanStart |-> FALSE,
     dsList |-> <<>>, listed |-> {}, idx |-> 0, appNameList |-> <<>>,
     provisioner |-> {}, steps |-> BackoffSteps, duration |-> BackoffDuration,
     err |-> "nil", storeError |-> "none",
     ops |-> {}, deletes |-> {}, lastDelete |-> "none", polls |-> 0, numberFound |-> -1,
     aggregated |-> FALSE, des |-> NoDesired,
     cmResult |-> "none", dsResult |-> "none", configMap |-> NoConfigMap, writes |-> 0,
     last |-> NoPass]

\* what a pass leaves for the comparison with the next one: its namespace and
\* desired state when it ran both upserts and returned no error
Summary(p) ==
    IF p.err = "nil" /\ p.dsResult \in {"unchanged", "created", "updated"}
    THEN [namespace |-> p.namespace, des |-> p.des]
    ELSE NoPass

\* ------------------------------------------------------------ the store
FindDaemonSet(ns, name) == {d \in daemonSets : d.namespace = ns /\ d.name = name}

\* client.List(dsList, client.InNamespace(namespace)): the lists the client can
\* answer with, the DaemonSets of the namespace in any order
ListDaemonSetsIn(ns) ==
    LET items == {d \in daemonSets : d.namespace = ns}
    IN  {list \in [1..Cardinality(items) -> items] :
            \A i, j \in DOMAIN list : list[i] = list[j] => i = j}

\* the answers the store can give to a delete of a DaemonSet
DeleteAnswers(ns, name) ==
    IF FindDaemonSet(ns, name) # {} THEN {"ok", "error"} ELSE {"notfound", "gone", "error"}

\* the answers the store can give to a get of a DaemonSet
GetAnswers(ns, name) ==
    IF FindDaemonSet(ns, name) # {} THEN {"found", "error"} ELSE {"notfound", "gone", "error"}

\* the store's DaemonSets after a delete answered ans
AfterDelete(ns, name, ans) ==
    IF ans = "ok" THEN daemonSets \ FindDaemonSet(ns, name) ELSE daemonSets

\* errors.IsNotFound(err) || errors.IsGone(err)
IsNotFoundOrGone(ans) == ans \in {"notfound", "gone"}

\* ------------------------------------------------------------ cleanupOldDaemonsets
\* mutant: every DaemonSet that carries the label is taken for an old one
IsOldLocalVolumeDaemonAnyLabel(ds) == appLabelKey \in DOMAIN ds.labels

\* the test of lines 110-113 on one listed DaemonSet
IsOldLocalVolumeDaemon(ds) ==
    /\ appLabelKey \in DOMAIN ds.labels
    /\ \/ HasPrefix(ds.labels[appLabelKey], oldLVDiskMakerPrefix)
       \/ HasPrefix(ds.labels[appLabelKey], oldLVProvisionerPrefix)

\* the store holds no DaemonSet and no pod of the deprecated generation
LegacyFree ==
    /\ \A d \in daemonSets : ~IsOldLocalVolumeDaemon(d) /\ d.name # oldProvisionerName
    /\ \A q \in pods : ~IsLegacyLabel(q.app)

\* mutant: a DaemonSet without a deprecated label ends the loop (break for continue)
NextMatchBreak(list, i) ==
    IF i > Len(list) \/ IsOldLocalVolumeDaemon(list[i]) THEN i ELSE Len(list) + 1

\* the next index from i on whose DaemonSet the loop deletes (the others: continue)
RECURSIVE NextMatch(_, _)
NextMatch(list, i) ==
    IF i > Len(list) THEN i
    ELSE IF IsOldLocalVolumeDaemon(list[i]) THEN i
    ELSE NextMatch(list, i + 1)

\* mutant: the wait for the pods starts right after the loop, without the get
AfterLoopToPoll(list, i) == IF i > Len(list) THEN "poll" ELSE "loop"

\* the call's position after the loop has handled the entries before index i
AfterLoop(list, i) == IF i > Len(list) THEN "get" ELSE "loop"

\* the list the loop goes on reading from position pc: none once it is left
LoopList(list, pc) == IF pc = "loop" THEN list ELSE <<>>

Running(w) == pass[w].pc \notin {"idle", "done"}

\* mutant: the latch is not consulted
CleanupEntryAlwaysScan(latch) == "list"

\* lines 97-99: where cleanupOldDaemonsets goes on for a value of the latch
CleanupEntry(latch) == IF latch THEN "aggregate" ELSE "list"

\* mutant: errors.IsGone is not tested
DeleteSucceededNoGone(ans) == ans = "ok" \/ ans = "notfound"

\* mutant: only a delete without any error counts
DeleteSucceededStrict(ans) == ans = "ok"

\* lines 118 and 131: the delete's answer does not abort the cleanup
DeleteSucceeded(ans) == ans = "ok" \/ IsNotFoundOrGone(ans)

Set(w, p) == pass' = [pass EXCEPT ![w] = p]

\* Reconcile is called for a namespace; cleanupOldDaemonsets returns at once
\* when the latch is set
StartPass(w, ns) ==
    /\ ~Running(w)
    /\ Set(w, [IdlePass EXCEPT
                 !.namespace = ns,
                 !.skipped = deletedStaticProvisioner,
                 !.cleanStart = LegacyFree,
                 !.pc = CleanupEntry(deletedStaticProvisioner),
                 !.last = Summary(pass[w])])
    /\ UNCHANGED <<deletedStaticProvisioner, cleaned, storeVars>>

\* a Reconcile call, of at most MaxPasses
Reconcile(w, ns) ==
    /\ passes < MaxPasses
    /\ passes' = passes + 1
    /\ StartPass(w, ns)

\* a Reconcile call that is not counted: triggers keep arriving
ReconcileAgain(w, ns) ==
    /\ StartPass(w, ns)
    /\ UNCHANGED passes

\* search for old localvolume daemons: the list
ListDaemonSets(w) ==
    /\ pass[w].pc = "list"
    /\ \E ans \in {"ok", "error"}, list \in ListDaemonSetsIn(pass[w].namespace) :
          LET p == pass[w]
              first == NextMatch(list, 1)
          IN  Set(w, IF ans = "error"
                     THEN [p EXCEPT !.pc = "done", !.err = "list",
                                    !.storeError = "dsList",
                                    !.ops = @ \cup {"dsList"}]
                     ELSE [p EXCEPT !.pc = AfterLoop(list, first),
                                    !.dsList = LoopList(list, AfterLoop(list, first)),
                                    !.listed = Range(list),
                                    !.idx = first, !.ops = @ \cup {"dsList"}])
    /\ UNCHANGED <<deletedStaticProvisioner, cleaned, storeVars, passes>>

\* one iteration of the loop on a DaemonSet with a deprecated label prefix
DeleteOldDaemon(w) ==
    /\ pass[w].pc = "loop"
    /\ LET p == pass[w]
           ds == p.dsList[p.idx]
           next == NextMatch(p.dsList, p.idx + 1)
       IN  \E ans \in DeleteAnswers(ds.namespace, ds.name) :
              /\ daemonSets' = AfterDelete(ds.namespace, ds.name, ans)
              /\ Set(w, [p EXCEPT
                           !.appNameList = Append(@, ds.labels[appLabelKey]),
                           !.ops = @ \cup {"delete"},
                           !.deletes = @ \cup {ds.name},
                           !.lastDelete = ans,
                           !.storeError = IF IsNotFoundOrGone(ans) \/ ans = "ok"
                                          THEN @ ELSE "delete",
                           !.idx = IF DeleteSucceeded(ans) THEN next ELSE @,
                           !.dsList = LoopList(@, IF DeleteSucceeded(ans)
                                                  THEN AfterLoop(p.dsList, next)
                                                  ELSE "done"),
                           !.err = IF DeleteSucceeded(ans) THEN @ ELSE "delete",
                           !.pc = IF DeleteSucceeded(ans)
                                  THEN AfterLoop(p.dsList, next) ELSE "done"])
    /\ UNCHANGED <<deletedStaticProvisioner, cleaned, pods, configMaps, passes>>

\* search for old localvolumeset daemons: the get
GetProvisioner(w) ==
    /\ pass[w].pc = "get"
    /\ LET p == pass[w]
       IN  \E ans \in GetAnswers(p.namespace, oldProvisionerName) :
              Set(w, [p EXCEPT
                        !.ops = @ \cup {"dsGet"},
                        !.provisioner = IF ans = "found"
                                        THEN FindDaemonSet(p.namespace, oldProvisionerName)
                                        ELSE {},
                        !.err = IF ans = "error" THEN "get" ELSE @,
                        !.storeError = IF ans = "found" \/ IsNotFoundOrGone(ans)
                                       THEN @ ELSE "dsGet",
                        !.pc = IF ans = "found" THEN "deleteProvisioner"
                               ELSE IF IsNotFoundOrGone(ans) THEN "poll" ELSE "done"])
    /\ UNCHANGED <<deletedStaticProvisioner, cleaned, storeVars, passes>>

\* the delete of the old provisioner DaemonSet that the get found
DeleteProvisioner(w) ==
    /\ pass[w].pc = "deleteProvisioner"
    /\ LET p == pass[w]
       IN  \E ans \in DeleteAnswers(p.namespace, oldProvisionerName) :
              /\ daemonSets' = AfterDelete(p.namespace, oldProvisionerName, ans)
              /\ Set(w, [p EXCEPT
                           !.ops = @ \cup {"delete"},
                           !.deletes = @ \cup {oldProvisionerName},
                           !.lastDelete = ans,
                           !.storeError = IF IsNotFoundOrGone(ans) \/ ans = "ok"
                                          THEN @ ELSE "delete",
                           !.err = IF DeleteSucceeded(ans) THEN @ ELSE "delete",
                           !.pc = IF DeleteSucceeded(ans) THEN "poll" ELSE "done"])
    /\ UNCHANGED <<deletedStaticProvisioner, cleaned, pods, configMaps, passes>>

\* Backoff.Step: one step fewer and the duration multiplied by the factor; a
\* duration beyond the cap is set to the cap and ends the steps
BackoffStep(b) ==
    LET d == (b.duration * BackoffFactorNum) \div BackoffFactorDen
    IN  IF d > BackoffCap
        THEN [steps |-> 0, duration |-> BackoffCap]
        ELSE [steps |-> b.steps - 1, duration |-> d]

\* wait.ExponentialBackoff after a condition call that returned (false, nil):
\* the steps and duration for the next call, steps 0 when there is none
BackoffNext(b) ==
    IF b.steps = 1 THEN [steps |-> 0, duration |-> b.duration] ELSE BackoffStep(b)

\* mutant: the label selector is not applied
PodsUnselected(names) == pods

\* the pods the label selector 'app in (names)' selects
PodsWithLabelIn(names) == {q \in pods : q.app \in Range(names)}

\* the condition function: what the pod list returns for an answer of the store
PodListItems(ans, names) == IF ans = "ok" THEN PodsWithLabelIn(names) ELSE {}

\* mutant: allGone is set whatever the list holds
ConditionResultAlwaysGone(ans, items) ==
    IF ans # "ok" /\ ans # "notfound" THEN "error" ELSE "done"

\* lines 159-163 of the condition function: "error", or whether all pods are gone
ConditionResult(ans, items) ==
    IF ans # "ok" /\ ans # "notfound" THEN "error"
    ELSE IF Cardinality(items) = 0 THEN "done"
    ELSE "again"

\* wait for pods to die: one call of the condition function by ExponentialBackoff,
\* and what follows it (the next attempt, the timeout, or the latch)
PollPods(w) ==
    /\ pass[w].pc = "poll"
    /\ LET p == pass[w]
           names == Append(p.appNameList, oldProvisionerName)
       IN  \E ans \in {"ok", "notfound", "error"} :
              LET items == PodListItems(ans, names)
                  res == ConditionResult(ans, items)
                  b == BackoffNext([steps |-> p.steps, duration |-> p.duration])
                  q == [p EXCEPT !.appNameList = names, !.ops = @ \cup {"podList"},
                                 !.polls = @ + 1, !.numberFound = Cardinality(items),
                                 !.storeError = IF ans = "ok" THEN @ ELSE "podList"]
              IN  /\ Set(w, CASE res = "error" -> [q EXCEPT !.pc = "done", !.err = "poll"]
                              [] res = "done" -> [q EXCEPT !.pc = "aggregate"]
                              [] OTHER ->
                                   [q EXCEPT !.steps = b.steps, !.duration = b.duration,
                                             !.pc = IF b.steps > 0 THEN "poll" ELSE "done",
                                             !.err = IF b.steps > 0 THEN @ ELSE "timeout"])
                  /\ deletedStaticProvisioner' =
                        IF res = "done" THEN TRUE ELSE deletedStaticProvisioner
                  /\ cleaned' = IF res = "done" THEN cleaned \cup {p.namespace} ELSE cleaned
    /\ UNCHANGED <<storeVars, passes>>

\* ------------------------------------------------------------ the environment
\* a pod of a deleted DaemonSet terminates (pods are read only by the polls of
\* a cleanup, so the terminations before a poll are taken while a pass polls)
PodTerminates ==
    \E q \in pods :
       /\ IsLegacyLabel(q.app)
       /\ \E w \in Workers : pass[w].pc = "poll"
       /\ \A d \in daemonSets :
             ~(d.namespace = q.namespace /\ appLabelKey \in DOMAIN d.labels
               /\ d.labels[appLabelKey] = q.app)
       /\ pods' = pods \ {q}
       /\ UNCHANGED <<deletedStaticProvisioner, cleaned, daemonSets, configMaps, pass, passes>>

\* a legacy DaemonSet is deleted by someone else after a pass has read it (the
\* reads of a pass come from a cache, so a listed object may be gone when the
\* pass deletes it)
DeletedElsewhere ==
    \E d \in daemonSets :
       /\ \E w \in Workers :
             /\ pass[w].pc \in {"loop", "deleteProvisioner"}
             /\ d.namespace = pass[w].namespace
             /\ d \in pass[w].listed \cup pass[w].provisioner
       /\ daemonSets' = daemonSets \ {d}
       /\ UNCHANGED <<deletedStaticProvisioner, cleaned, pods, configMaps, pass, passes>>

\* ------------------------------------------------------------ Reconcile, after the cleanup
ProvisionerConfigMapName == "local-provisioner"
StorageClasses == <<"sc-a", "sc-b">>

\* aggregateDeamonInfo: what is derived from the LocalVolumeSets and LocalVolumes
\* the store lists for the namespace
AggregateDaemonInfo(d) ==
    [lvSets |-> d.lvSets, lvs |-> d.lvs,
     ownerRefs |-> {o.name : o \in d.lvSets \cup d.lvs},
     nodeSelector |-> {o.nodeSelector : o \in d.lvSets \cup d.lvs}]

\* the payload of the provisioner ConfigMap for the aggregated objects
ConfigData(lvSets, lvs) ==
    [sc \in {o.storageClass : o \in lvSets \cup lvs} |-> "/mnt/local-storage/" \o sc]

\* dataHash: the digest of the payload's entries taken in key order
RECURSIVE HashEntries(_, _)
HashEntries(data, i) ==
    IF i > Len(StorageClasses) THEN ""
    ELSE (IF StorageClasses[i] \in DOMAIN data
          THEN StorageClasses[i] \o "=" \o data[StorageClasses[i]] \o ";"
          ELSE "")
         \o HashEntries(data, i + 1)

dataHash(data) == "h(" \o HashEntries(data, 1) \o ")"

\* the mutate function of the provisioner ConfigMap
ConfigMapMutateFn(obj, ns, info) ==
    [obj EXCEPT !.namespace = ns, !.name = ProvisionerConfigMapName,
                !.data = ConfigData(info.lvSets, info.lvs),
                !.ownerRefs = info.ownerRefs]

\* getDiskMakerDSMutateFn
DiskMakerDSMutateFn(obj, ns, info, configMapDataHash) ==
    [obj EXCEPT !.namespace = ns, !.name = DiskMakerName,
                !.labels = AppLabel(DiskMakerName),
                !.hash = configMapDataHash,
                !.nodeSelector = info.nodeSelector,
                !.ownerRefs = info.ownerRefs]

\* mutant: every create-or-update writes
WriteAlways(existing, mutated) == TRUE

\* the outcome of a create-or-update: existing is the stored object (a set of at
\* most one), mutated the object after the mutate function, fault the store call
\* that fails ("none", "get", "write")
WriteNeeded(existing, mutated) == existing = {} \/ existing # {mutated}

OperationResult(existing, mutated, fault) ==
    IF fault = "get" THEN "error"
    ELSE IF ~WriteNeeded(existing, mutated) THEN "unchanged"
    ELSE IF fault = "write" THEN "error"
    ELSE IF existing = {} THEN "created"
    ELSE "updated"

\* the stored objects after a create-or-update of one of them
AfterUpsert(store, existing, mutated, result) ==
    IF result \in {"created", "updated"} THEN (store \ existing) \cup {mutated} ELSE store

\* the faults a create-or-update can meet
Faults(existing, mutated) ==
    {"none", "get"} \cup (IF WriteNeeded(existing, mutated) THEN {"write"} ELSE {})

FindConfigMap(ns) ==
    {c \in configMaps : c.namespace = ns /\ c.name = ProvisionerConfigMapName}

\* the locals of cleanupOldDaemonsets, dropped once Reconcile goes on
AfterCleanup(p) ==
    [p EXCEPT !.dsList = <<>>, !.listed = {}, !.idx = 0, !.appNameList = <<>>, !.provisioner = {},
              !.steps = BackoffSteps, !.duration = BackoffDuration,
              !.ops = {}, !.deletes = {}, !.lastDelete = "none",
              !.polls = 0, !.numberFound = -1, !.storeError = "none"]

\* mutant: the return on nothing to manage is missing
NothingToManageNever(info) == FALSE

\* line 71: len(lvSets.Items) < 1 && len(lvs.Items) < 1
NothingToManage(info) == Cardinality(info.lvSets) < 1 /\ Cardinality(info.lvs) < 1

\* lines 67-73: the aggregation (the store answers with the LocalVolumeSets and
\* LocalVolumes of the namespace, or an error) and the return on nothing to manage
Aggregate(w) ==
    /\ pass[w].pc = "aggregate"
    /\ LET p == AfterCleanup(pass[w])
       IN  \E ans \in {"ok", "error"}, d \in DesiredStates :
              LET info == AggregateDaemonInfo(d)
              IN  /\ ans = "error" => d = NoDesired
                  /\ Set(w, IF ans = "error"
                            THEN [p EXCEPT !.pc = "done", !.err = "aggregate",
                                           !.storeError = "aggregate"]
                            ELSE [p EXCEPT !.aggregated = TRUE, !.des = d,
                                           !.pc = IF NothingToManage(info)
                                                  THEN "done" ELSE "configMap"])
    /\ UNCHANGED <<deletedStaticProvisioner, cleaned, storeVars, passes>>

\* the aggregated information a pass holds after line 67
InfoOf(p) == AggregateDaemonInfo(p.des)

\* mutant: the error of the ConfigMap upsert does not end the pass
AfterConfigMapIgnoreError(result) == "daemonSet"

\* lines 76-77: where Reconcile goes on after the ConfigMap upsert
AfterConfigMap(result) == IF result = "error" THEN "done" ELSE "daemonSet"

\* lines 75-80: reconcileProvisionerConfigMap
ReconcileProvisionerConfigMap(w) ==
    /\ pass[w].pc = "configMap"
    /\ LET p == pass[w]
           existing == FindConfigMap(p.namespace)
           obj == IF existing = {} THEN NoConfigMap ELSE CHOOSE c \in existing : TRUE
           mutated == ConfigMapMutateFn(obj, p.namespace, InfoOf(p))
       IN  \E fault \in Faults(existing, mutated) :
              LET result == OperationResult(existing, mutated, fault)
              IN  /\ configMaps' = AfterUpsert(configMaps, existing, mutated, result)
                  /\ Set(w, [p EXCEPT
                               !.cmResult = result,
                               !.configMap = IF result = "error" THEN @ ELSE mutated,
                               !.writes = IF result \in {"created", "updated"}
                                          THEN @ + 1 ELSE @,
                               !.err = IF result = "error" THEN "configMap" ELSE @,
                               !.storeError = IF fault = "none" THEN @ ELSE "configMap",
                               !.pc = AfterConfigMap(result)])
    /\ UNCHANGED <<deletedStaticProvisioner, cleaned, daemonSets, pods, passes>>

\* mutant: the hash is taken before the ConfigMap is reconciled
ConfigMapDataHashEarly(p) == dataHash(NoConfigMap.data)

\* mutant: the hash is taken from the ConfigMap only when the upsert wrote it
ConfigMapDataHashIfWritten(p) ==
    IF p.cmResult = "unchanged" THEN dataHash(NoConfigMap.data)
    ELSE dataHash(p.configMap.data)

\* line 82: the hash the DaemonSet is annotated with
ConfigMapDataHash(p) == dataHash(p.configMap.data)

\* lines 84-92: CreateOrUpdateDaemonset with the diskmaker mutate function
ReconcileDaemonSet(w) ==
    /\ pass[w].pc = "daemonSet"
    /\ LET p == pass[w]
           existing == FindDaemonSet(p.namespace, DiskMakerName)
           obj == IF existing = {} THEN DaemonSet("", "", NoLabels)
                  ELSE CHOOSE d \in existing : TRUE
           mutated == DiskMakerDSMutateFn(obj, p.namespace, InfoOf(p), ConfigMapDataHash(p))
       IN  \E fault \in Faults(existing, mutated) :
              LET result == OperationResult(existing, mutated, fault)
              IN  /\ daemonSets' = AfterUpsert(daemonSets, existing, mutated, result)
                  /\ Set(w, [p EXCEPT
                               !.dsResult = result,
                               !.writes = IF result \in {"created", "updated"}
                                          THEN @ + 1 ELSE @,
                               !.err = IF result = "error" THEN "daemonSet" ELSE @,
                               !.storeError = IF fault = "none" THEN @ ELSE "daemonSet",
                               !.pc = "done"])
    /\ UNCHANGED <<deletedStaticProvisioner, cleaned, pods, configMaps, passes>>

\* the LocalVolumeSet an earlier run of the operator has reconciled
EarlierDesired == [lvSets |-> {LVObject("lvset-a", "sc-a", "sel1")}, lvs |-> {}]

\* the managed objects an earlier run of the operator has left in ns1
EarlierConfigMap ==
    ConfigMapMutateFn(NoConfigMap, "ns1", AggregateDaemonInfo(EarlierDesired))
EarlierDaemonSet ==
    DiskMakerDSMutateFn(DaemonSet("", "", NoLabels), "ns1",
                        AggregateDaemonInfo(EarlierDesired),
                        dataHash(EarlierConfigMap.data))

\* the process has just started: the latch is false and no pass runs. The
\* store holds the objects of other owners, and either DaemonSets with a
\* deprecated label in ns1 and an old provisioner in some namespaces (at most
\* MaxLegacy deprecated DaemonSets in a namespace), each with its pod, or
\* (restart after a completed migration) the managed objects of an earlier run
Init ==
    /\ deletedStaticProvisioner = FALSE
    /\ \E n \in 0..MaxLegacy, old \in SUBSET Namespaces, managed \in BOOLEAN :
          /\ managed => (n = 0 /\ old = {})
          /\ n + Cardinality(old \cap {"ns1"}) <= MaxLegacy
          /\ daemonSets = {CustomDS} \cup {LegacyDS(i) : i \in 1..n}
                          \cup {OldProvisionerDS(ns) : ns \in old}
                          \cup (IF managed THEN {EarlierDaemonSet} ELSE {})
          /\ pods = {CustomPod} \cup {Pod("ns1", LegacyName(i)) : i \in 1..n}
                    \cup {Pod(ns, oldProvisionerName) : ns \in old}
          /\ configMaps = IF managed THEN {EarlierConfigMap} ELSE {}
    /\ pass = [w \in Workers |-> IdlePass]
    /\ passes = 0
    /\ cleaned = {}

\* ------------------------------------------------------------ specifications
Step(w) ==
    \/ ListDaemonSets(w)
    \/ DeleteOldDaemon(w)
    \/ GetProvisioner(w)
    \/ DeleteProvisioner(w)
    \/ PollPods(w)
    \/ Aggregate(w)
    \/ ReconcileProvisionerConfigMap(w)
    \/ ReconcileDaemonSet(w)

Environment == PodTerminates \/ DeletedElsewhere

\* one worker: the work queue runs one pass at a time
Next ==
    \/ \E ns \in Namespaces : Reconcile("w1", ns)
    \/ Step("w1")
    \/ Environment

Spec == Init /\ [][Next]_vars

\* two workers run one pass each over ns1, both started while the latch is
\* false; the namespace holds a DaemonSet with a deprecated label prefix and
\* the old provisioner, each with its pod. What one pass deletes is gone for
\* the other.
InitConc ==
    /\ deletedStaticProvisioner = FALSE
    /\ daemonSets = {CustomDS, LegacyDS(1), OldProvisionerDS("ns1")}
    /\ pods = {CustomPod, Pod("ns1", LegacyName(1)), Pod("ns1", oldProvisionerName)}
    /\ configMaps = {}
    /\ pass = [w \in Workers |-> IdlePass]
    /\ passes = 0
    /\ cleaned = {}

NextConc ==
    \/ \E w \in Workers :
          /\ pass[w].pc = "idle"
          /\ ~deletedStaticProvisioner
          /\ Reconcile(w, "ns1")
    \/ \E w \in Workers : Step(w)
    \/ PodTerminates

SpecConc == InitConc /\ [][NextConc]_vars

\* one worker and triggers that keep arriving for every namespace: a running
\* pass goes on to its return, a pod of a deleted DaemonSet terminates in the
\* end, and every namespace is reconciled again and again
NextLive ==
    \/ \E ns \in Namespaces : ReconcileAgain("w1", ns)
    \/ Step("w1")
    \/ PodTerminates

Fairness ==
    /\ WF_vars(Step("w1"))
    /\ SF_vars(PodTerminates)
    /\ \A ns \in Namespaces : SF_vars(ReconcileAgain("w1", ns))

SpecLive == Init /\ [][NextLive]_vars /\ Fairness

\* ------------------------------------------------------------ properties
CleanupPositions == {"list", "loop", "get", "deleteProvisioner", "poll"}
CleanupErrors == {"list", "delete", "get", "poll", "timeout"}

\* the pass of w has just returned from a cleanupOldDaemonsets that ran
CleanupReturnedNil(w) == pass[w].pc = "aggregate" /\ ~pass[w].skipped

\* C1: the latch, once true, stays true, and a call of cleanupOldDaemonsets that
\* starts while it is true returns nil at once: it is never at a position of
\* the cleanup, has issued none of the cleanup's store calls and carries none
\* of its errors.
C1_LatchAbsorbing ==
    [][ /\ deletedStaticProvisioner => deletedStaticProvisioner'
        /\ \A w \in Workers :
              (deletedStaticProvisioner /\ ~Running(w) /\ Running(w)')
                 => /\ pass'[w].skipped
                    /\ pass'[w].pc = "aggregate"
        /\ \A w \in Workers :
              pass'[w].skipped
                 => /\ pass'[w].pc \notin CleanupPositions
                    /\ pass'[w].ops = {}
                    /\ pass'[w].deletes = {}
                    /\ pass'[w].polls = 0
                    /\ pass'[w].err \notin CleanupErrors ]_vars

\* C1 witness: a pass that started with the latch set is past the cleanup
C1_Witness ==
    \E w \in Workers :
       /\ deletedStaticProvisioner
       /\ pass[w].skipped
       /\ pass[w].pc = "aggregate"

\* C2: the latch turns true only in the step in which a poll of a cleanup found
\* zero pods and the cleanup returned nil; a step in which a pass returns one of
\* the cleanup's errors leaves the latch as it was, false.
C2_LatchOnlyAfterDrain ==
    [][ /\ (~deletedStaticProvisioner /\ deletedStaticProvisioner')
           => \E w \in Workers :
                 /\ pass[w].pc = "poll"
                 /\ pass'[w].pc = "aggregate"
                 /\ pass'[w].polls = pass[w].polls + 1
                 /\ pass'[w].numberFound = 0
                 /\ pass'[w].err = "nil"
        /\ \A w \in Workers :
              (pass[w].pc # "done" /\ pass'[w].pc = "done"
               /\ pass'[w].err \in CleanupErrors)
                 => /\ deletedStaticProvisioner' = deletedStaticProvisioner
                    /\ ~deletedStaticProvisioner' ]_vars

\* C2 witness: the latch was set by a poll that was not the first of its run
C2_Witness ==
    \E w \in Workers :
       /\ CleanupReturnedNil(w)
       /\ deletedStaticProvisioner
       /\ pass[w].polls > 1
       /\ pass[w].numberFound = 0

\* C3: after a delete answered not-found or gone the cleanup goes on (to the
\* next matched DaemonSet, the get, or the poll) without an error; after a
\* delete answered with another error the pass is over with that error, that
\* delete being its last store call, no poll made and the latch false, and the
\* next Reconcile starts the cleanup again from the list.
C3_DeleteErrors ==
    [][ \A w \in Workers :
          /\ (pass[w].pc \in {"loop", "deleteProvisioner"} /\ pass'[w] # pass[w])
                => /\ IsNotFoundOrGone(pass'[w].lastDelete)
                      => /\ pass'[w].err = "nil"
                         /\ pass'[w].pc =
                               IF pass[w].pc = "deleteProvisioner" THEN "poll"
                               ELSE AfterLoop(pass[w].dsList, pass'[w].idx)
                         /\ pass'[w].idx > pass[w].idx
                            \/ pass[w].pc = "deleteProvisioner"
                   /\ pass'[w].lastDelete = "error"
                      => /\ pass'[w].pc = "done"
                         /\ pass'[w].err = "delete"
                         /\ pass'[w].polls = 0
                         /\ "podList" \notin pass'[w].ops
                         /\ daemonSets' = daemonSets
                         /\ ~deletedStaticProvisioner'
          /\ (pass[w].pc = "done" /\ pass[w].err = "delete")
                => /\ pass[w].lastDelete = "error"
                   /\ pass'[w] # pass[w]
                      => /\ pass'[w].pc = "list"
                         /\ pass'[w].dsList = <<>>
                         /\ pass'[w].deletes = {} ]_vars

\* C3 witness: a delete was answered gone and the cleanup went on to its poll
C3_Witness ==
    \E w \in Workers :
       /\ pass[w].lastDelete = "gone"
       /\ pass[w].pc = "poll"
       /\ pass[w].err = "nil"

\* C4: a cleanup whose polls all find pods ends with the backoff's timeout
\* after exactly BackoffSteps (20) polls, the latch false.  (Violated: the
\* duration 1s * 1.7^k passes the 2m cap at the 10th step, which ends the
\* steps, so the timeout comes after 10 polls.)
C4_TimeoutAfterConfiguredSteps ==
    \A w \in Workers :
       (pass[w].pc = "done" /\ pass[w].err = "timeout")
          => /\ pass[w].polls = BackoffSteps
             /\ ~deletedStaticProvisioner

\* the DaemonSets a cleanup has matched so far: the listed ones with a
\* deprecated label prefix and the old provisioner the get found
Matched(p) ==
    {d.name : d \in {x \in p.listed : IsOldLocalVolumeDaemon(x)}}
    \cup {d.name : d \in p.provisioner}

\* C5: a cleanup run whose store calls returned no error and one of whose polls
\* found zero pods has returned nil with the latch set, a delete was issued for
\* every DaemonSet it matched, and none of them is left in the namespace.
C5_CleanupConvergence ==
    \A w \in Workers :
       (~pass[w].skipped /\ pass[w].numberFound = 0
        /\ pass[w].err \notin CleanupErrors)
          => /\ pass[w].pc = "aggregate"
             /\ deletedStaticProvisioner
             /\ Matched(pass[w]) \subseteq pass[w].deletes
             /\ \A name \in Matched(pass[w]) :
                   FindDaemonSet(pass[w].namespace, name) = {}
             /\ \A d \in pass[w].listed :
                   IsOldLocalVolumeDaemon(d) => d.name \in pass[w].deletes

\* C5 witness: a run that matched MaxLegacy DaemonSets, the old provisioner
\* among them, has returned nil after waiting for the pods
C5_Witness ==
    \E w \in Workers :
       /\ CleanupReturnedNil(w)
       /\ deletedStaticProvisioner
       /\ Cardinality(Matched(pass[w])) = MaxLegacy
       /\ pass[w].provisioner # {}
       /\ pass[w].deletes = Matched(pass[w])
       /\ pass[w].polls > 1
       /\ pass[w].numberFound = 0

\* C6: a pass that carries an error has returned, and nothing after the failed
\* step has run: after a cleanup error no aggregation and no upsert, after an
\* aggregation error no upsert, after a ConfigMap upsert error no DaemonSet
\* upsert; and an upsert runs only after the steps before it succeeded.
C6_ErrorAbortsPass ==
    \A w \in Workers :
       LET p == pass[w]
       IN  /\ p.err # "nil" => p.pc = "done"
           /\ p.err \in CleanupErrors
                 => ~p.aggregated /\ p.cmResult = "none" /\ p.dsResult = "none"
                    /\ p.writes = 0
           /\ p.err = "aggregate"
                 => ~p.aggregated /\ p.cmResult = "none" /\ p.dsResult = "none"
                    /\ p.writes = 0
           /\ p.err = "configMap" => p.cmResult = "error" /\ p.dsResult = "none"
           /\ p.err = "daemonSet" => p.dsResult = "error"
           /\ p.cmResult # "none" => p.aggregated
           /\ p.dsResult # "none" => p.cmResult \in {"unchanged", "created", "updated"}
           /\ p.pc \in CleanupPositions
                 => ~p.aggregated /\ p.cmResult = "none" /\ p.dsResult = "none"

\* C6 witness: a pass was ended by the error of its ConfigMap upsert
C6_Witness ==
    \E w \in Workers :
       /\ pass[w].pc = "done"
       /\ pass[w].err = "configMap"
       /\ pass[w].aggregated

\* C7: a cleanup that starts with the latch false in a store without legacy
\* DaemonSets and without pods of legacy labels issues no delete and at most
\* one poll, never times out, and, when its list, get and pod list return no
\* error, returns nil after exactly one poll with the latch set.
C7_CleanupIdempotence ==
    \A w \in Workers :
       LET p == pass[w]
       IN  (p.cleanStart /\ ~p.skipped /\ p.pc # "idle")
              => /\ p.deletes = {}
                 /\ "delete" \notin p.ops
                 /\ p.polls <= 1
                 /\ p.err \notin {"delete", "timeout"}
                 /\ p.polls = 1 /\ p.err = "nil"
                       => /\ p.pc = "aggregate"
                          /\ p.numberFound = 0
                          /\ deletedStaticProvisioner
                 /\ p.pc = "aggregate"
                       => p.polls = 1 /\ deletedStaticProvisioner
                 /\ (p.err = "nil" /\ p.pc \notin CleanupPositions)
                       => deletedStaticProvisioner

\* C7 witness: a cleanup was re-run on a legacy-free store after an earlier
\* pass had deleted the legacy DaemonSets, and returned nil after one poll
C7_Witness ==
    \E w \in Workers :
       /\ pass[w].cleanStart
       /\ CleanupReturnedNil(w)
       /\ pass[w].polls = 1
       /\ passes = 2
       /\ deletedStaticProvisioner

\* the managed DaemonSet of the namespace carries the hash of the namespace's
\* stored ConfigMap payload
AnnotationConsistent(ns) ==
    /\ FindConfigMap(ns) # {}
    /\ FindDaemonSet(ns, DiskMakerName) # {}
    /\ \A c \in FindConfigMap(ns), d \in FindDaemonSet(ns, DiskMakerName) :
          d.hash = dataHash(c.data)

\* C8 as stated: after any pass whose ConfigMap upsert wrote the ConfigMap, the
\* managed DaemonSet's hash annotation is the hash of the stored payload.
\* (Violated by a pass whose DaemonSet upsert fails after the ConfigMap write.)
C8_AnnotationAfterAnyPass ==
    \A w \in Workers :
       (pass[w].pc = "done" /\ pass[w].cmResult \in {"created", "updated"})
          => AnnotationConsistent(pass[w].namespace)

\* C8 amended: after any pass that wrote the ConfigMap and returned no error,
\* the stored payload is the one the pass computed and the managed DaemonSet's
\* hash annotation is the hash of that payload.
C8_AnnotationAfterSuccessfulPass ==
    \A w \in Workers :
       (pass[w].pc = "done" /\ pass[w].err = "nil"
        /\ pass[w].cmResult \in {"created", "updated"})
          => /\ AnnotationConsistent(pass[w].namespace)
             /\ \A c \in FindConfigMap(pass[w].namespace) :
                   c.data = ConfigData(pass[w].des.lvSets, pass[w].des.lvs)

\* C8 witness: a pass changed the payload of an existing ConfigMap and updated
\* the DaemonSet with the new hash
C8_Witness ==
    \E w \in Workers :
       /\ pass[w].pc = "done"
       /\ pass[w].err = "nil"
       /\ pass[w].cmResult = "updated"
       /\ pass[w].dsResult = "updated"
       /\ pass[w].configMap.data # ConfigData(pass[w].last.des.lvSets, pass[w].last.des.lvs)
       /\ pass[w].last.namespace = pass[w].namespace

\* the pass follows a pass of the same namespace that ran both upserts without
\* error, and aggregated the same desired state
SameAsLast(p) ==
    /\ p.aggregated
    /\ p.last = [namespace |-> p.namespace, des |-> p.des]

\* C9: in a pass that follows a full pass of the same namespace with the same
\* desired state, no upsert step changes the stored ConfigMaps or DaemonSets
\* or counts a write, each upsert that returns reports unchanged, and a pass
\* that returns nil has reported unchanged for both.
C9_PassIdempotence ==
    [][ \A w \in Workers :
          (pass[w].pc \in {"configMap", "daemonSet"} /\ SameAsLast(pass[w])
           /\ pass'[w] # pass[w])
             => /\ configMaps' = configMaps
                /\ daemonSets' = daemonSets
                /\ pass'[w].writes = 0
                /\ pass[w].pc = "configMap"
                      => pass'[w].cmResult \in {"unchanged", "error"}
                /\ pass[w].pc = "daemonSet"
                      => pass'[w].dsResult \in {"unchanged", "error"}
                /\ (pass'[w].pc = "done" /\ pass'[w].err = "nil")
                      => /\ pass'[w].cmResult = "unchanged"
                         /\ pass'[w].dsResult = "unchanged" ]_vars

\* C9 witness: the second of two full passes with the same desired state is over
C9_Witness ==
    \E w \in Workers :
       /\ pass[w].pc = "done"
       /\ pass[w].err = "nil"
       /\ SameAsLast(pass[w])
       /\ pass[w].cmResult = "unchanged"
       /\ pass[w].dsResult = "unchanged"
       /\ AnnotationConsistent(pass[w].namespace)

\* the stored ConfigMap c carries the fields the mutate function of pass p sets
ConfigMapCarries(c, p) ==
    /\ c.namespace = p.namespace
    /\ c.name = ProvisionerConfigMapName
    /\ c.data = ConfigData(p.des.lvSets, p.des.lvs)
    /\ c.ownerRefs = {o.name : o \in p.des.lvSets \cup p.des.lvs}

\* the stored DaemonSet d carries the fields the mutate function of pass p sets
DaemonSetCarries(d, p) ==
    /\ d.namespace = p.namespace
    /\ d.name = DiskMakerName
    /\ d.labels = AppLabel(DiskMakerName)
    /\ d.hash = dataHash(p.configMap.data)
    /\ d.nodeSelector = {o.nodeSelector : o \in p.des.lvSets \cup p.des.lvs}
    /\ d.ownerRefs = {o.name : o \in p.des.lvSets \cup p.des.lvs}

\* the outcome of an upsert against the target before and after it: created
\* only of an absent target, unchanged only of a target that carries the
\* fields and with no write, updated only of a target that does not carry
\* them, and the store changed only by created and updated
UpsertDiscipline(result, before, after, carriedBefore, carriedAfter, wrote, sameStore) ==
    /\ result \in {"unchanged", "created", "updated", "error"}
    /\ result = "created" => before = {} /\ after # {} /\ carriedAfter /\ wrote
    /\ result = "updated"
          => before # {} /\ ~carriedBefore /\ after # {} /\ carriedAfter
             /\ after # before /\ wrote
    /\ result = "unchanged" => before # {} /\ carriedBefore /\ sameStore /\ ~wrote
    /\ result = "error" => sameStore /\ ~wrote
    /\ wrote => ~sameStore

\* C10: every upsert step of a pass (ConfigMap, DaemonSet) keeps the upsert
\* discipline, and leaves every other stored object as it was.
C10_UpsertDiscipline ==
    [][ \A w \in Workers :
          LET p == pass[w]
              q == pass'[w]
              cmBefore == FindConfigMap(p.namespace)
              cmAfter == {c \in configMaps' : c.namespace = p.namespace
                                              /\ c.name = ProvisionerConfigMapName}
              dsBefore == FindDaemonSet(p.namespace, DiskMakerName)
              dsAfter == {d \in daemonSets' : d.namespace = p.namespace
                                              /\ d.name = DiskMakerName}
          IN  /\ (p.pc = "configMap" /\ q # p)
                    => /\ UpsertDiscipline(q.cmResult, cmBefore, cmAfter,
                             \A c \in cmBefore : ConfigMapCarries(c, p),
                             \A c \in cmAfter : ConfigMapCarries(c, p),
                             q.writes = p.writes + 1, configMaps' = configMaps)
                       /\ q.writes \in {p.writes, p.writes + 1}
                       /\ configMaps' \ cmAfter = configMaps \ cmBefore
                       /\ daemonSets' = daemonSets
              /\ (p.pc = "daemonSet" /\ q # p)
                    => /\ UpsertDiscipline(q.dsResult, dsBefore, dsAfter,
                             \A d \in dsBefore : DaemonSetCarries(d, p),
                             \A d \in dsAfter : DaemonSetCarries(d, p),
                             q.writes = p.writes + 1, daemonSets' = daemonSets)
                       /\ q.writes \in {p.writes, p.writes + 1}
                       /\ daemonSets' \ dsAfter = daemonSets \ dsBefore
                       /\ configMaps' = configMaps ]_vars

\* C10 witness: one pass left the ConfigMap unchanged and updated the DaemonSet
C10_Witness ==
    \E w \in Workers :
       /\ pass[w].pc = "done"
       /\ pass[w].cmResult = "unchanged"
       /\ pass[w].dsResult = "updated"
       /\ pass[w].writes = 1

\* C11: a pass whose aggregation yields no LocalVolumeSet and no LocalVolume
\* returns nil right after the aggregation: it attempts neither the ConfigMap
\* upsert nor the DaemonSet upsert and writes nothing, and the step in which
\* it returns leaves the ConfigMaps and DaemonSets of the store as they were.
C11_NoOpOnEmptyDesiredState ==
    [][ \A w \in Workers :
           ( /\ pass'[w].aggregated
             /\ pass'[w].des.lvSets = {}
             /\ pass'[w].des.lvs = {} )
              => /\ pass'[w].pc = "done"
                 /\ pass'[w].err = "nil"
                 /\ pass'[w].cmResult = "none"
                 /\ pass'[w].dsResult = "none"
                 /\ pass'[w].writes = 0
                 /\ (pass'[w] # pass[w] => configMaps' = configMaps /\ daemonSets' = daemonSets) ]_vars

\* C11 witness: a pass has returned nil on an empty aggregation while the store
\* still holds the managed objects of an earlier pass for its namespace
C11_Witness ==
    \E w \in Workers :
       /\ pass[w].pc = "done"
       /\ pass[w].aggregated
       /\ pass[w].des = NoDesired
       /\ pass[w].err = "nil"
       /\ FindConfigMap(pass[w].namespace) # {}
       /\ FindDaemonSet(pass[w].namespace, DiskMakerName) # {}

\* the state of the cleanup's state machine a pass is in: 0 Pending (the call
\* has made no store call yet), 1 Deleting (lines 102-138), 2 AwaitingDrain
\* (lines 141-170), 3 Done (line 171 and after); -1 when the pass ran no
\* cleanup or the cleanup returned an error
CleanupPhase(p) ==
    CASE p.pc = "list" -> 0
      [] p.pc \in {"loop", "get", "deleteProvisioner"} -> 1
      [] p.pc = "poll" -> 2
      [] p.pc \in {"aggregate", "configMap", "daemonSet"} /\ ~p.skipped -> 3
      [] OTHER -> -1

\* C12: a step of a cleanup run either returns one of the cleanup's errors or
\* stays in its state or moves to the next one (Pending, Deleting,
\* AwaitingDrain, Done), never further; a run that has polled the pods has
\* listed the DaemonSets, looked for the old provisioner, and issued a delete
\* for every DaemonSet it matched; the latch turns true only in a step from
\* AwaitingDrain to Done.
C12_CleanupOrdering ==
    [][ /\ \A w \in Workers :
             (pass'[w] # pass[w] /\ pass[w].pc \in CleanupPositions)
                => \/ /\ pass'[w].pc = "done"
                      /\ pass'[w].err \in CleanupErrors
                      /\ deletedStaticProvisioner' = deletedStaticProvisioner
                   \/ /\ CleanupPhase(pass'[w]) = CleanupPhase(pass[w])
                      /\ deletedStaticProvisioner' = deletedStaticProvisioner
                   \/ /\ CleanupPhase(pass'[w]) = CleanupPhase(pass[w]) + 1
                      /\ deletedStaticProvisioner' # deletedStaticProvisioner
                            <=> CleanupPhase(pass'[w]) = 3
        /\ \A w \in Workers :
             (pass'[w].pc = "poll" \/ "podList" \in pass'[w].ops)
                => /\ {"dsList", "dsGet"} \subseteq pass'[w].ops
                   /\ Matched(pass'[w]) \subseteq pass'[w].deletes
        /\ (~deletedStaticProvisioner /\ deletedStaticProvisioner')
              => \E w \in Workers : /\ CleanupPhase(pass[w]) = 2
                                     /\ CleanupPhase(pass'[w]) = 3 ]_vars

\* C12 witness: a run has polled more than once after it issued a delete for
\* MaxLegacy DaemonSets, the old provisioner among them
C12_Witness ==
    \E w \in Workers :
       /\ pass[w].pc = "poll"
       /\ pass[w].polls > 1
       /\ Cardinality(Matched(pass[w])) = MaxLegacy
       /\ pass[w].provisioner # {}
       /\ pass[w].deletes = Matched(pass[w])

\* a DaemonSet the cleanup is meant to retire: its 'app' label starts with one
\* of the two deprecated prefixes or its name is the deprecated exact name
Deprecated(d) ==
    \/ d.name = oldProvisionerName
    \/ /\ appLabelKey \in DOMAIN d.labels
       /\ \E prefix \in {oldLVDiskMakerPrefix, oldLVProvisionerPrefix} :
             HasPrefix(d.labels[appLabelKey], prefix)

\* C13: a step of a cleanup run creates and updates nothing and leaves every
\* pod and ConfigMap as it was; the DaemonSets it removes, and the ones it
\* issues a delete for, are DaemonSets of the run's namespace with a deprecated
\* label prefix or the deprecated name. Every other DaemonSet stays unchanged.
C13_DeletesOnlyLegacy ==
    [][ \A w \in Workers :
           (pass'[w] # pass[w] /\ pass[w].pc \in CleanupPositions)
              => /\ pods' = pods
                 /\ configMaps' = configMaps
                 /\ daemonSets' \subseteq daemonSets
                 /\ \A d \in daemonSets \ daemonSets' :
                       d.namespace = pass[w].namespace /\ Deprecated(d)
                 /\ \A name \in pass'[w].deletes \ pass[w].deletes :
                       \E d \in pass'[w].listed \cup pass'[w].provisioner :
                          /\ d.name = name
                          /\ d.namespace = pass[w].namespace
                          /\ Deprecated(d) ]_vars

\* C13 witness: a cleanup run over ns1 has deleted MaxLegacy DaemonSets
\* and waits for the pods, and the unlabelled DaemonSet of ns1 and the old
\* provisioner of ns2 are still stored
C13_Witness ==
    \E w \in Workers :
       /\ pass[w].pc = "poll"
       /\ pass[w].namespace = "ns1"
       /\ pass[w].lastDelete = "ok"
       /\ Cardinality(pass[w].deletes) = MaxLegacy
       /\ {CustomDS, OldProvisionerDS("ns2")} \subseteq daemonSets
       /\ CustomPod \in pods

\* C13 witness of the managed DaemonSet: a cleanup run has listed the managed
\* DaemonSet diskmaker-manager and returned nil, and it is still stored
C13_ManagedKept ==
    \E w \in Workers :
       /\ CleanupReturnedNil(w)
       /\ EarlierDaemonSet \in pass[w].listed
       /\ EarlierDaemonSet \in daemonSets

\* C14: a pass one of whose store calls (DaemonSet list, get, delete, pod list,
\* aggregation, upserts) was answered with an error, other than not-found or
\* gone to a delete or to the get, has returned that error; and a step in
\* which the pod list of a poll is answered with an error does not set the
\* latch and does not let the cleanup return nil.
C14_NoErrorSwallowed ==
    [][ \A w \in Workers :
           /\ pass'[w].storeError # "none"
                 => /\ pass'[w].pc = "done"
                    /\ pass'[w].err # "nil"
           /\ (pass'[w].polls = pass[w].polls + 1 /\ pass'[w].storeError = "podList")
                 => /\ deletedStaticProvisioner' = deletedStaticProvisioner
                    /\ pass'[w].err = "poll" ]_vars

\* the state in which C14 fails: the pod list of a poll was answered with
\* not-found, the cleanup has returned nil and set the latch, and a pod of the
\* retired DaemonSets is still there
C14_NotFoundCountsAsDrained ==
    \E w \in Workers :
       /\ CleanupReturnedNil(w)
       /\ deletedStaticProvisioner
       /\ pass[w].storeError = "podList"
       /\ PodsWithLabelIn(pass[w].appNameList) # {}

\* the cleanup of a pass has run and returned nil
CleanupSucceeded(p) ==
    /\ ~p.skipped
    /\ p.pc \notin CleanupPositions \cup {"idle"}
    /\ p.err \notin CleanupErrors

\* C15: with two passes over one namespace interleaved, both started with the
\* latch false: a cleanup returns an error only when one of its own store
\* calls was answered with an error or its wait timed out, and a delete or get
\* of a DaemonSet the other pass has already deleted lets the run go on; the
\* latch never goes from true to false; and when the cleanups of both passes
\* have returned nil no deprecated DaemonSet is left in the namespace.
C15_ConcurrentCleanups ==
    [][ /\ \A w \in Workers :
             /\ pass'[w].err \in CleanupErrors
                   => (pass'[w].storeError # "none" \/ pass'[w].err = "timeout")
             /\ ( /\ pass[w].pc \in {"loop", "get", "deleteProvisioner"}
                  /\ pass'[w] # pass[w]
                  /\ pass'[w].storeError = "none" )
                   => pass'[w].pc \in CleanupPositions
        /\ deletedStaticProvisioner => deletedStaticProvisioner'
        /\ (\A w \in Workers : CleanupSucceeded(pass'[w]))
              => \A d \in daemonSets' :
                    (\E w \in Workers : d.namespace = pass'[w].namespace) => ~Deprecated(d)
      ]_vars

\* C15 witness: both cleanups have returned nil and the latch is set; the last
\* delete of one pass succeeded, and the last delete of the other, of the same
\* DaemonSet, was answered with not-found
C15_Witness ==
    \E a, b \in Workers :
       /\ a # b
       /\ CleanupReturnedNil(a)
       /\ CleanupReturnedNil(b)
       /\ deletedStaticProvisioner
       /\ pass[a].lastDelete = "ok"
       /\ pass[b].lastDelete = "notfound"
       /\ oldProvisionerName \in pass[a].deletes \cap pass[b].deletes

\* the pass has gone on from the cleanup to the aggregation (line 67)
PastCleanup(p) ==
    /\ p.pc \notin CleanupPositions \cup {"idle"}
    /\ p.err \notin CleanupErrors

\* C17: whenever a pass for a namespace has gone on from the cleanup to the
\* aggregation, a cleanup run over that same namespace has returned nil earlier
\* in this process; the cleanup completed for another namespace does not let
\* the pass skip its own.
C17_CleanupBeforeManagement ==
    \A w \in Workers :
       PastCleanup(pass[w]) => pass[w].namespace \in cleaned

\* the state in which C17 fails: a pass for a namespace that no cleanup has run
\* over has skipped the cleanup and written the managed DaemonSet, and the old
\* provisioner of the namespace is still stored
C17_ManagedBesideLegacy ==
    \E w \in Workers :
       /\ pass[w].skipped
       /\ pass[w].namespace \notin cleaned
       /\ pass[w].dsResult = "created"
       /\ OldProvisionerDS(pass[w].namespace) \in daemonSets

\* the pods of namespace ns whose 'app' label is in names
PodsOfNamespace(ns, names) ==
    {q \in pods : q.namespace = ns /\ q.app \in Range(names)}

\* C18: a poll of a cleanup run over a namespace whose pod list was answered
\* without error counts exactly the pods of that namespace whose 'app' label
\* is in the run's retirement set, so a pod of another namespace neither
\* delays nor prevents the return of the cleanup; and the retirement set is
\* the same at every poll of the run.
C18_DrainCheckScoped ==
    [][ \A w \in Workers :
           (pass'[w].polls = pass[w].polls + 1 /\ pass'[w].storeError = "none")
              => /\ pass'[w].numberFound =
                       Cardinality(PodsOfNamespace(pass[w].namespace, pass'[w].appNameList))
                 /\ pass[w].polls > 0
                       => Range(pass'[w].appNameList) = Range(pass[w].appNameList) ]_vars

\* the state in which C18 fails: a cleanup run over ns1 has timed out although
\* its last poll found no pod of ns1 with a label of the retirement set
C18_BlockedByOtherNamespace ==
    \E w \in Workers :
       /\ pass[w].err = "timeout"
       /\ pass[w].namespace = "ns1"
       /\ pass[w].numberFound > 0
       /\ PodsOfNamespace("ns1", pass[w].appNameList) = {}

\* no pass carries the error of a store call
NoStoreError == \A w \in Workers : pass[w].storeError = "none"

\* a cleanup run over ns has returned an error after it deleted some of the
\* deprecated DaemonSets of ns, and others are still stored
PartialAbort(ns) ==
    \E w \in Workers :
       /\ pass[w].pc = "done"
       /\ pass[w].namespace = ns
       /\ pass[w].err \in CleanupErrors
       /\ \E name \in pass[w].deletes : FindDaemonSet(ns, name) = {}
       /\ \E d \in daemonSets : d.namespace = ns /\ Deprecated(d)

\* the latch is set and no deprecated DaemonSet is left in ns
Recovered(ns) ==
    /\ deletedStaticProvisioner
    /\ \A d \in daemonSets : d.namespace = ns => ~Deprecated(d)

\* C16: a cleanup run that returns an error after deleting some of the
\* deprecated DaemonSets leaves the latch false and what it deleted stays
\* deleted; and when triggers keep arriving, the store errors cease and the
\* pods of deleted DaemonSets terminate, a later pass deletes the remaining
\* deprecated DaemonSets of the namespace and sets the latch.
C16_RecoveryFromPartialProgress ==
    /\ [](\A ns \in Namespaces : PartialAbort(ns) => ~deletedStaticProvisioner)
    /\ [][\A d \in daemonSets' \ daemonSets : ~Deprecated(d)]_vars
    /\ <>[]NoStoreError
          => \A ns \in Namespaces : PartialAbort(ns) ~> Recovered(ns)

====
